---- MODULE Spec2Model ----
(***************************************************************************)
(* The streaming session of the audio-conversation client: the React hook  *)
(* useWebSocket (binary-framing variant) and the callbacks it raises into  *)
(* AudioDashboard.  One action per hook operation (connect, disconnect,    *)
(* sendAudioData), per WebSocket event handler (onopen, onmessage,         *)
(* onerror, onclose) and per reconnect-timer callback.  Each handler is an *)
(* operator from the state it runs in to the state it leaves; the action   *)
(* of the same name installs that state.  The browser's WebSocket objects  *)
(* and timers are the environment: every object the hook creates keeps its *)
(* own readyState and its own handlers, whether or not wsRef still points  *)
(* at it.  Further sections add the dashboard's session operations with    *)
(* the capture hook useAudioCapture, the message handler of the hook's     *)
(* JSON-enveloped variant, the Dedalus StreamingClient with its example    *)
(* program, and the mock WebSocket server of the client package; each has  *)
(* a specification of its own.                                             *)
(***************************************************************************)
EXTENDS Integers, Sequences, FiniteSets, TLC

\* ------------------------------------------------------------------ bounds

\* WebSocket objects that exist at once.  An object that is CLOSED and that
\* wsRef no longer names runs no handler again: its slot is released (back
\* to NONE, its history dropped) and the next `new WebSocket(url)` may take it.
MaxConns == 2

\* Reconnect timers outstanding at once.
MaxTimers == 2

\* Entries in the conversation message log.
MaxLog == 1

\* Entries the dashboard's conversation log may hold in a session run.
MaxEntries == 3

\* Clients that connect to the mock server.
MaxClients == 2

\* ------------------------------------------------------- program constants

maxReconnectAttempts == 5

NormalClosure == 1000

BaseDelay == 1000

MaxDelay == 30000

\* ----------------------------------------------------------------- domains

\* null as a connection (wsRef.current, inTask) ...
Null == 0

\* ... and null as a timer id or an error message.
None == "null"

Conns == 1..MaxConns

\* Which reconnect timer an event is about: the one reconnectTimeoutRef
\* names, or one whose id the ref no longer holds.
TimerKinds == {"stored", "orphan"}

\* The audio chunks handed to sendAudioData.
Payloads == {"chunkA", "chunkB"}

\* Close codes a close event may carry: 1000 (normal closure), 1001 (the
\* server is going away) and 1006 (abnormal: the connection failed).
CloseCodes == {NormalClosure, 1001, 1006}

ConnectionError == "WebSocket connection error"

\* The transcription field of a server message: absent, empty, blank, text.
Absent == "<absent>"

Transcriptions == {Absent, "", "   ", "let's pause here"}

\* event.data of a message event: a binary frame, text that is not JSON, a
\* JSON object without the is_there_a_pause key, or the pause-detection
\* object {is_there_a_pause, transcription?}.
Messages ==
    {[kind |-> k, pause |-> FALSE, transcription |-> Absent] :
        k \in {"binary", "malformed", "unknown"}}
    \cup {[kind |-> "pause", pause |-> b, transcription |-> t] :
            b \in BOOLEAN, t \in Transcriptions}

VARIABLES
    wsRef,                \* wsRef.current: a connection, or Null
    readyState,           \* readyState of every WebSocket object: NONE before it
                          \* is constructed, then CONNECTING/OPEN/CLOSING/CLOSED
    opened,               \* the connections whose open event has fired
    handshakes,           \* handshake messages the transport got, per connection
    reconnectTimeoutRef,  \* reconnectTimeoutRef.current: None, or the id of a
                          \* timer that is still "pending" or has "fired"
    orphanTimers,         \* how many pending timers the ref does not name
    reconnectAttempts,    \* reconnectAttempts.current
    initialMessageSent,   \* initialMessageSent.current
    isConnected,          \* React state of the hook
    error,                \* React state of the hook: None or a message
    conversationStatus,   \* AudioDashboard state, set through onStatusUpdate
    recommendations,      \* AudioDashboard state, set through onRecommendations
    conversationMessages, \* AudioDashboard state: the log, [type, content]
                          \* entries (ids and timestamps left out)
    inTask,               \* the connection whose error event has fired and whose
                          \* close event follows in the same task, or Null
    isRecording,          \* React state of useAudioCapture
    captureError,         \* React state of useAudioCapture: None or a message
    starting,             \* where a handleStartSession call is suspended:
                          \* "none", at await connect() ("connect"), or inside
                          \* startRecording at await getUserMedia ("media")
    awaited,              \* the connection whose open or error event settles
                          \* the promise connect() returned, or Null
    client,               \* Null in the browser application; in the Dedalus
                          \* example the StreamingClient and the program
                          \* driving it: its ws field, the readyState of the
                          \* sockets it made, the promise connect() returned
                          \* for each, and where main() is
    mockServer,           \* Null in the browser application; in the mock
                          \* server's specification the MockWebSocketServer:
                          \* its process, the sockets of its clients, its
                          \* timers, and what it sent
    retried,              \* observer: the connections the callback of a
                          \* reconnect timer constructed (empty unless the
                          \* specification records them)
    calls                 \* what the handler that ran last called on the
                          \* transport and the timers

vars == <<wsRef, readyState, opened, handshakes, reconnectTimeoutRef, orphanTimers,
          reconnectAttempts, initialMessageSent, isConnected, error,
          conversationStatus, recommendations, conversationMessages, inTask,
          isRecording, captureError, starting, awaited, client, mockServer,
          retried, calls>>

\* The hook's state (with the dashboard state its callbacks write) as one
\* record, and the action that installs such a record.
Here ==
    [wsRef |-> wsRef, readyState |-> readyState, opened |-> opened,
     handshakes |-> handshakes, reconnectTimeoutRef |-> reconnectTimeoutRef,
     orphanTimers |-> orphanTimers, reconnectAttempts |-> reconnectAttempts,
     initialMessageSent |-> initialMessageSent, isConnected |-> isConnected,
     error |-> error, conversationStatus |-> conversationStatus,
     recommendations |-> recommendations,
     conversationMessages |-> conversationMessages, inTask |-> inTask,
     calls |-> calls]

Assigns(s) ==
    /\ wsRef' = s.wsRef
    /\ readyState' = s.readyState
    /\ opened' = s.opened
    /\ handshakes' = s.handshakes
    /\ reconnectTimeoutRef' = s.reconnectTimeoutRef
    /\ orphanTimers' = s.orphanTimers
    /\ reconnectAttempts' = s.reconnectAttempts
    /\ initialMessageSent' = s.initialMessageSent
    /\ isConnected' = s.isConnected
    /\ error' = s.error
    /\ conversationStatus' = s.conversationStatus
    /\ recommendations' = s.recommendations
    /\ conversationMessages' = s.conversationMessages
    /\ inTask' = s.inTask
    /\ calls' = s.calls
    /\ UNCHANGED <<isRecording, captureError, starting, awaited, client,
                   mockServer>>

Becomes(s) == Assigns(s) /\ UNCHANGED retried

\* The state of hook, capture, dashboard and streaming client as one record,
\* and the action that installs such a record.
Whole ==
    [wsRef |-> wsRef, readyState |-> readyState, opened |-> opened,
     handshakes |-> handshakes, reconnectTimeoutRef |-> reconnectTimeoutRef,
     orphanTimers |-> orphanTimers, reconnectAttempts |-> reconnectAttempts,
     initialMessageSent |-> initialMessageSent, isConnected |-> isConnected,
     error |-> error, conversationStatus |-> conversationStatus,
     recommendations |-> recommendations,
     conversationMessages |-> conversationMessages, inTask |-> inTask,
     isRecording |-> isRecording, captureError |-> captureError,
     starting |-> starting, awaited |-> awaited, client |-> client,
     calls |-> calls]

BecomesWhole(s) ==
    /\ wsRef' = s.wsRef
    /\ readyState' = s.readyState
    /\ opened' = s.opened
    /\ handshakes' = s.handshakes
    /\ reconnectTimeoutRef' = s.reconnectTimeoutRef
    /\ orphanTimers' = s.orphanTimers
    /\ reconnectAttempts' = s.reconnectAttempts
    /\ initialMessageSent' = s.initialMessageSent
    /\ isConnected' = s.isConnected
    /\ error' = s.error
    /\ conversationStatus' = s.conversationStatus
    /\ recommendations' = s.recommendations
    /\ conversationMessages' = s.conversationMessages
    /\ inTask' = s.inTask
    /\ isRecording' = s.isRecording
    /\ captureError' = s.captureError
    /\ starting' = s.starting
    /\ awaited' = s.awaited
    /\ client' = s.client
    /\ calls' = s.calls
    /\ UNCHANGED <<mockServer, retried>>

\* ------------------------------------------------------------ pure helpers

\* One call a handler makes on a WebSocket object or on the timers:
\* send_text / send_binary (conn, text), close (conn, num = code, text =
\* reason), setTimeout (num = delay), clearTimeout.
Call(fn, conn, text, num) == [fn |-> fn, conn |-> conn, text |-> text, num |-> num]

Min(a, b) == IF a <= b THEN a ELSE b

SetMin(S) == CHOOSE x \in S : \A y \in S : x <= y

\* A WebSocket object that is CLOSED and that wsRef does not name runs no
\* handler again: its slot goes back to NONE and its history is dropped.
Release(s) ==
    LET dead == {c \in Conns : s.readyState[c] = "CLOSED" /\ c # s.wsRef
                                /\ c # s.inTask}
    IN [s EXCEPT !.readyState = [c \in Conns |-> IF c \in dead THEN "NONE" ELSE @[c]],
                 !.opened = @ \ dead,
                 !.handshakes = [c \in Conns |-> IF c \in dead THEN 0 ELSE @[c]]]

\* The slots a new WebSocket object may take.
FreeSlots(s) ==
    {c \in Conns : s.readyState[c] = "NONE"
                   \/ (s.readyState[c] = "CLOSED" /\ c = s.wsRef)}

\* The reconnect timers scheduled and neither fired nor cleared.
PendingTimers(s) ==
    s.orphanTimers + (IF s.reconnectTimeoutRef = "pending" THEN 1 ELSE 0)

\* WebSocket.send(frame) on connection c: a CONNECTING socket throws, an OPEN
\* one transmits, a CLOSING or CLOSED one discards the data without throwing.
SendOutcome(s, c) ==
    IF s.readyState[c] = "CONNECTING" THEN "throws"
    ELSE IF s.readyState[c] = "OPEN" THEN "sent"
    ELSE "discarded"

\* ------------------------------------------------------------------- Init

InitApp ==
    /\ wsRef = Null
    /\ readyState = [c \in Conns |-> "NONE"]
    /\ opened = {}
    /\ handshakes = [c \in Conns |-> 0]
    /\ reconnectTimeoutRef = None
    /\ orphanTimers = 0
    /\ reconnectAttempts = 0
    /\ initialMessageSent = FALSE
    /\ isConnected = FALSE
    /\ error = None
    /\ conversationStatus = "idle"
    /\ recommendations = <<>>
    /\ conversationMessages = <<>>
    /\ inTask = Null
    /\ isRecording = FALSE
    /\ captureError = None
    /\ starting = "none"
    /\ awaited = Null
    /\ retried = {}
    /\ calls = {}

\* The browser application: no StreamingClient and no mock server exist.
Init == InitApp /\ client = Null /\ mockServer = Null

\* ---------------------------------------------------------------- connect

\* A faulty variant of AlreadyConnected: the guard reads the hook's
\* isConnected state instead of the socket's readyState.
AlreadyConnectedByFlag(s) == s.wsRef # Null /\ s.isConnected

\* wsRef.current?.readyState === WebSocket.OPEN, the guard of connect()
AlreadyConnected(s) == s.wsRef # Null /\ s.readyState[s.wsRef] = "OPEN"

\* connect(): setError(null); return if the current socket is OPEN;
\* otherwise construct a new WebSocket, store it in wsRef and install the
\* four handlers on it.
connect(s) ==
    IF AlreadyConnected(s)
    THEN [s EXCEPT !.error = None, !.calls = {}]
    ELSE LET c == SetMin(FreeSlots(s)) IN
         Release([s EXCEPT !.error = None,
                           !.wsRef = c,
                           !.readyState[c] = "CONNECTING",
                           !.opened = @ \ {c},
                           !.handshakes[c] = 0,
                           !.calls = {}])

\* Whether the model has a slot for the WebSocket connect() would construct.
CanConnect(s) == AlreadyConnected(s) \/ FreeSlots(s) # {}

Connect ==
    /\ inTask = Null
    /\ CanConnect(Here)
    /\ Becomes(connect(Here))

\* The callback of the reconnect timer: reconnectAttempts.current++; connect().
reconnectTimer(s, t) ==
    connect([s EXCEPT !.reconnectTimeoutRef = IF t = "stored" THEN "fired" ELSE @,
                      !.orphanTimers = IF t = "orphan" THEN @ - 1 ELSE @,
                      !.reconnectAttempts = @ + 1])

ReconnectTimerFires(t) ==
    /\ inTask = Null
    /\ IF t = "stored" THEN reconnectTimeoutRef = "pending" ELSE orphanTimers > 0
    /\ CanConnect(Here)
    /\ Becomes(reconnectTimer(Here, t))

\* ------------------------------------------------------------- disconnect

\* A faulty variant of disconnect: the socket is closed but wsRef keeps
\* naming it.
disconnectKeepsRef(s) ==
    LET t == s.reconnectTimeoutRef
        c == s.wsRef
    IN [s EXCEPT !.reconnectTimeoutRef = None,
                 !.readyState =
                     IF c # Null /\ @[c] \in {"CONNECTING", "OPEN"}
                     THEN [@ EXCEPT ![c] = "CLOSING"] ELSE @,
                 !.isConnected = FALSE,
                 !.error = None,
                 !.reconnectAttempts = 0,
                 !.calls = (IF t # None
                            THEN {Call("clearTimeout", Null, "", 0)} ELSE {})
                           \cup (IF c # Null
                                 THEN {Call("close", c, "Manual disconnect",
                                            NormalClosure)}
                                 ELSE {})]

\* disconnect(): clearTimeout on the stored timer, close(1000) on the stored
\* socket, wsRef := null, isConnected := false, error := null, attempts := 0.
\* close() moves a CONNECTING or OPEN socket to CLOSING.
disconnect(s) ==
    LET t == s.reconnectTimeoutRef
        c == s.wsRef
    IN Release(
        [s EXCEPT !.reconnectTimeoutRef = None,
                  !.wsRef = Null,
                  !.readyState =
                      IF c # Null /\ @[c] \in {"CONNECTING", "OPEN"}
                      THEN [@ EXCEPT ![c] = "CLOSING"] ELSE @,
                  !.isConnected = FALSE,
                  !.error = None,
                  !.reconnectAttempts = 0,
                  !.calls = (IF t # None
                             THEN {Call("clearTimeout", Null, "", 0)} ELSE {})
                            \cup (IF c # Null
                                  THEN {Call("close", c, "Manual disconnect",
                                             NormalClosure)}
                                  ELSE {})])

Disconnect ==
    /\ inTask = Null
    /\ Becomes(disconnect(Here))

\* ---------------------------------------------------------- sendAudioData

\* A faulty variant of AudioGate: it gates on the hook's isConnected state
\* instead of the socket's readyState.
AudioGateByIsConnected(s) ==
    s.wsRef # Null /\ s.isConnected /\ s.initialMessageSent

\* A variant of the gate that trusts the handshake flag and does not look at
\* the socket's readyState.
AudioGateByFlagOnly(s) == s.wsRef # Null /\ s.initialMessageSent

\* wsRef.current?.readyState === WebSocket.OPEN && initialMessageSent.current
AudioGate(s) ==
    s.wsRef # Null /\ s.readyState[s.wsRef] = "OPEN" /\ s.initialMessageSent

\* sendAudioData(audioData): send the chunk as one binary message when the
\* gate is open, else only warn.
sendAudioData(s, p) ==
    [s EXCEPT !.calls = IF AudioGate(s)
                        THEN {Call("send_binary", s.wsRef, p, 0)} ELSE {}]

SendAudioData(p) ==
    /\ inTask = Null
    /\ Becomes(sendAudioData(Here, p))

\* ----------------------------------------------------------------- onopen

\* JSON.stringify({prompt, duration}) with the hook's default props.
InitialMessage == "{\"prompt\":\"Default conversation analysis prompt\",\"duration\":30}"

\* The open event of connection c.  The handler sends the initial message on
\* wsRef.current, whichever socket that names when the event fires; a send
\* that throws ends the handler.
onopen(s, c) ==
    LET s1 == [s EXCEPT !.readyState[c] = "OPEN",
                        !.opened = @ \cup {c},
                        !.isConnected = TRUE,
                        !.reconnectAttempts = 0,
                        !.initialMessageSent = FALSE,
                        !.calls = {}]
        w == s1.wsRef
    IN IF w = Null \/ SendOutcome(s1, w) = "throws" THEN s1
       ELSE [s1 EXCEPT !.handshakes[w] =
                           IF SendOutcome(s1, w) = "sent" THEN @ + 1 ELSE @,
                       !.calls =
                           IF SendOutcome(s1, w) = "sent"
                           THEN {Call("send_text", w, InitialMessage, 0)} ELSE {},
                       !.initialMessageSent = TRUE,
                       !.conversationStatus = "listening"]

OnOpen(c) ==
    /\ inTask = Null
    /\ readyState[c] = "CONNECTING"
    /\ Becomes(onopen(Here, c))

\* -------------------------------------------------------------- onmessage

\* String.prototype.trim on the transcription texts.
Trim(t) == IF t \in {"", "   "} THEN "" ELSE t

\* A faulty variant of HasText: the transcription is not trimmed before the
\* test.
HasTextUntrimmed(m) == m.transcription # Absent /\ m.transcription # ""

\* data.transcription && data.transcription.trim()
HasText(m) == m.transcription # Absent /\ Trim(m.transcription) # ""

\* AudioDashboard's onRecommendations: setRecommendations(recs) and one agent
\* entry appended per recommendation.
\* A variant of onRecommendations that shows only the latest recommendations
\* in the log.
onRecommendationsReplacing(s, recs) ==
    [s EXCEPT !.recommendations = recs,
              !.conversationMessages =
                  [i \in 1..Len(recs) |-> [type |-> "agent", content |-> recs[i]]]]

onRecommendations(s, recs) ==
    [s EXCEPT !.recommendations = recs,
              !.conversationMessages =
                  @ \o [i \in 1..Len(recs) |-> [type |-> "agent", content |-> recs[i]]]]

\* A faulty variant of onmessage: text that JSON.parse rejects is surfaced
\* as an error and drops the status to idle.
onmessageSurfacesParseError(s, m) ==
    LET s1 == [s EXCEPT !.calls = {}] IN
    IF m.kind = "malformed"
    THEN [s1 EXCEPT !.error = "Error parsing WebSocket message",
                    !.conversationStatus = "idle"]
    ELSE IF m.kind # "pause" THEN s1
    ELSE LET s2 == [s1 EXCEPT !.conversationStatus =
                                  IF m.pause THEN "paused" ELSE "listening"]
         IN IF HasText(m) THEN onRecommendations(s2, <<m.transcription>>) ELSE s2

\* The message event: nothing for a binary frame (returns early), for text
\* JSON.parse rejects (caught) and for an object without is_there_a_pause
\* (logged); else the status from the flag and the transcription, if any
\* text, as the one recommendation.
onmessage(s, m) ==
    LET s1 == [s EXCEPT !.calls = {}] IN
    IF m.kind # "pause" THEN s1
    ELSE LET s2 == [s1 EXCEPT !.conversationStatus =
                                  IF m.pause THEN "paused" ELSE "listening"]
         IN IF HasText(m) THEN onRecommendations(s2, <<m.transcription>>) ELSE s2

OnMessage(c, m) ==
    /\ inTask = Null
    /\ readyState[c] \in {"OPEN", "CLOSING"}
    /\ c \in opened
    /\ Len(onmessage(Here, m).conversationMessages) <= MaxLog
    /\ Becomes(onmessage(Here, m))

\* ---------------------------------------------------------------- onerror

\* A faulty variant of onerror: the handler also marks the session
\* disconnected and idle.
onerrorDropsSession(s, c) ==
    [s EXCEPT !.readyState[c] = "CLOSED",
              !.error = ConnectionError,
              !.isConnected = FALSE,
              !.conversationStatus = "idle",
              !.inTask = c,
              !.calls = {}]

\* The connection failed: the browser sets readyState to CLOSED and fires
\* error and then close (code 1006) in one task.  The handler stores the
\* error message.
onerror(s, c) ==
    [s EXCEPT !.readyState[c] = "CLOSED",
              !.error = ConnectionError,
              !.inTask = c,
              !.calls = {}]

OnError(c) ==
    /\ inTask = Null
    /\ readyState[c] \in {"CONNECTING", "OPEN", "CLOSING"}
    /\ Becomes(onerror(Here, c))

\* ---------------------------------------------------------------- onclose

\* A faulty variant of Backoff: the exponent is the number of the attempt (k + 1).
BackoffFromOne(k) == Min(BaseDelay * (2 ^ (k + 1)), MaxDelay)

\* Math.min(1000 * Math.pow(2, reconnectAttempts.current), 30000)
Backoff(k) == Min(BaseDelay * (2 ^ k), MaxDelay)

\* A faulty variant of ShouldReconnect: a close event seen with the counter
\* at the maximum still schedules a retry.
ShouldReconnectUpTo(s, code) ==
    code # NormalClosure /\ s.reconnectAttempts <= maxReconnectAttempts

\* A variant of the reconnect test that ignores the close code.
ShouldReconnectAnyCode(s, code) == s.reconnectAttempts < maxReconnectAttempts

\* event.code !== 1000 && reconnectAttempts.current < maxReconnectAttempts
ShouldReconnect(s, code) ==
    code # NormalClosure /\ s.reconnectAttempts < maxReconnectAttempts

\* A faulty variant of onclose: the attempt is counted when the retry is
\* scheduled.
oncloseCounting(s, c, code) ==
    LET s1 == [s EXCEPT !.readyState[c] = "CLOSED",
                        !.inTask = Null,
                        !.isConnected = FALSE,
                        !.conversationStatus = "idle",
                        !.calls = {}]
    IN Release(
        IF ShouldReconnect(s1, code)
        THEN [s1 EXCEPT !.reconnectTimeoutRef = "pending",
                        !.orphanTimers = PendingTimers(s1),
                        !.reconnectAttempts = @ + 1,
                        !.calls = {Call("setTimeout", Null, "",
                                        Backoff(s1.reconnectAttempts))}]
        ELSE s1)

\* A faulty variant of onclose: the status goes to idle only when no retry
\* is scheduled.
oncloseIdleUnlessRetry(s, c, code) ==
    LET s1 == [s EXCEPT !.readyState[c] = "CLOSED",
                        !.inTask = Null,
                        !.isConnected = FALSE,
                        !.calls = {}]
    IN Release(
        IF ShouldReconnect(s1, code)
        THEN [s1 EXCEPT !.reconnectTimeoutRef = "pending",
                        !.orphanTimers = PendingTimers(s1),
                        !.calls = {Call("setTimeout", Null, "",
                                        Backoff(s1.reconnectAttempts))}]
        ELSE [s1 EXCEPT !.conversationStatus = "idle"])

\* The close event of connection c with event.code = code:
\* setIsConnected(false), onStatusUpdate("idle"), and a reconnect timer
\* stored in reconnectTimeoutRef when ShouldReconnect; the assignment
\* overwrites the id of a timer still pending, which stays scheduled.
onclose(s, c, code) ==
    LET s1 == [s EXCEPT !.readyState[c] = "CLOSED",
                        !.inTask = Null,
                        !.isConnected = FALSE,
                        !.conversationStatus = "idle",
                        !.calls = {}]
    IN Release(
        IF ShouldReconnect(s1, code)
        THEN [s1 EXCEPT !.reconnectTimeoutRef = "pending",
                        !.orphanTimers = PendingTimers(s1),
                        !.calls = {Call("setTimeout", Null, "",
                                        Backoff(s1.reconnectAttempts))}]
        ELSE s1)

\* When the browser fires close on c with this code: right after c's error
\* event (1006), or at the end of the closing handshake of an established
\* connection (any code).
CloseEventOf(s, c, code) ==
    \/ s.inTask = c /\ code = 1006
    \/ /\ s.inTask = Null
       /\ c \in s.opened
       /\ s.readyState[c] \in {"OPEN", "CLOSING"}

OnClose(c, code) ==
    /\ CloseEventOf(Here, c, code)
    /\ ShouldReconnect(Here, code) => PendingTimers(Here) < MaxTimers
    /\ Becomes(onclose(Here, c, code))

\* The server starts the closing handshake: readyState becomes CLOSING
\* before the close event is fired.
ClosingStarts(c) ==
    /\ inTask = Null
    /\ readyState[c] = "OPEN"
    /\ Becomes([Here EXCEPT !.readyState[c] = "CLOSING", !.calls = {}])

\* ------------------------------------------------------------------- Next

Next ==
    \/ Connect
    \/ Disconnect
    \/ \E p \in Payloads : SendAudioData(p)
    \/ \E t \in TimerKinds : ReconnectTimerFires(t)
    \/ \E c \in Conns : OnOpen(c)
    \/ \E c \in Conns, m \in Messages : OnMessage(c, m)
    \/ \E c \in Conns : OnError(c)
    \/ \E c \in Conns, code \in CloseCodes : OnClose(c, code)
    \/ \E c \in Conns : ClosingStarts(c)

Spec == Init /\ [][Next]_vars

\* The session against a server that cannot be reached: no connection ever
\* opens, every attempt ends with the error event and the close event (1006)
\* that follows it.  The hook's operations stay callable at any time.
NextUnreachable ==
    \/ Connect
    \/ Disconnect
    \/ \E p \in Payloads : SendAudioData(p)
    \/ \E t \in TimerKinds : ReconnectTimerFires(t)
    \/ \E c \in Conns : OnError(c)
    \/ \E c \in Conns, code \in CloseCodes : OnClose(c, code)

SpecUnreachable == Init /\ [][NextUnreachable]_vars

\* The session with the origin of every connection recorded: connect()
\* called by the application, and connect() called by the callback of a
\* reconnect timer, which adds the WebSocket it constructs to retried.
ApplicationConnect ==
    /\ inTask = Null
    /\ CanConnect(Here)
    /\ Assigns(connect(Here))
    /\ retried' = IF AlreadyConnected(Here) THEN retried
                  ELSE retried \ {connect(Here).wsRef}

RetryTimerFires(t) ==
    /\ inTask = Null
    /\ IF t = "stored" THEN reconnectTimeoutRef = "pending" ELSE orphanTimers > 0
    /\ CanConnect(Here)
    /\ Assigns(reconnectTimer(Here, t))
    /\ retried' = IF AlreadyConnected(Here) THEN retried
                  ELSE retried \cup {reconnectTimer(Here, t).wsRef}

NextRecovery ==
    \/ ApplicationConnect
    \/ Disconnect
    \/ \E p \in Payloads : SendAudioData(p)
    \/ \E t \in TimerKinds : RetryTimerFires(t)
    \/ \E c \in Conns : OnOpen(c)
    \/ \E c \in Conns, m \in Messages : OnMessage(c, m)
    \/ \E c \in Conns : OnError(c)
    \/ \E c \in Conns, code \in CloseCodes : OnClose(c, code)
    \/ \E c \in Conns : ClosingStarts(c)

SpecRecovery == Init /\ [][NextRecovery]_vars

\* ------------------------------------------- useAudioCapture / AudioDashboard

\* The message startRecording stores when the microphone cannot be used.
MicrophoneError == "Failed to access microphone"

\* The scenario of the default agent settings.
DefaultScenario == "Negotiate career progression with my manager"

StartMessage ==
    [type |-> "system", content |-> "Session started - Scenario: " \o DefaultScenario]

EndMessage == [type |-> "system", content |-> "Session ended"]

\* startRecording up to its await of getUserMedia: the stored error is reset.
startRecording(s) == [s EXCEPT !.captureError = None, !.starting = "media", !.awaited = Null]

\* stopRecording: recorder, tracks and audio context are released and the
\* flag is lowered.
stopRecording(s) == [s EXCEPT !.isRecording = FALSE]

\* handleStartSession after await startRecording() has returned.
sessionStarted(s) ==
    [s EXCEPT !.starting = "none", !.conversationMessages = Append(@, StartMessage)]

\* getUserMedia resolved: the recorder starts, the flag is raised,
\* startRecording returns and handleStartSession goes on.
mediaGranted(s) == sessionStarted([s EXCEPT !.isRecording = TRUE, !.calls = {}])

\* A variant of startRecording's catch block that throws the error again:
\* handleStartSession's own catch then skips the start message.
mediaDeniedRethrown(s) ==
    [s EXCEPT !.captureError = MicrophoneError, !.starting = "none", !.calls = {}]

\* getUserMedia rejected (or the recorder could not be built): the catch
\* block of startRecording stores the message and returns normally, so
\* handleStartSession goes on as after a success.
mediaDenied(s) == sessionStarted([s EXCEPT !.captureError = MicrophoneError, !.calls = {}])

\* handleStartSession up to its first suspension.  connect() returns a promise
\* that is already resolved when the connection is open, and otherwise
\* settles at the open or error event of the connection it created.
handleStartSession(s) ==
    LET s1 == connect(s) IN
    IF AlreadyConnected(s) THEN startRecording(s1)
    ELSE [s1 EXCEPT !.starting = "connect", !.awaited = s1.wsRef]

\* The open event as handleStartSession sees it: onopen runs first, then the
\* listener that resolves the promise, and the call goes on to startRecording.
sessionOpen(s, c) ==
    LET s1 == onopen(s, c) IN
    IF s.starting = "connect" /\ s.awaited = c THEN startRecording(s1) ELSE s1

\* The error event as handleStartSession sees it: onerror runs first, then the
\* listener that rejects the promise; the catch block only logs.
sessionError(s, c) ==
    LET s1 == onerror(s, c) IN
    IF s.starting = "connect" /\ s.awaited = c
    THEN [s1 EXCEPT !.starting = "none", !.awaited = Null] ELSE s1

\* A variant of handleStopSession that leaves the recommendations in place.
handleStopSessionKeepsRecommendations(s) ==
    LET s1 == disconnect(stopRecording(s)) IN
    [s1 EXCEPT !.conversationStatus = "idle",
               !.conversationMessages = Append(@, EndMessage)]

handleStopSession(s) ==
    LET s1 == disconnect(stopRecording(s)) IN
    [s1 EXCEPT !.conversationStatus = "idle",
               !.recommendations = <<>>,
               !.conversationMessages = Append(@, EndMessage)]

\* A variant of handleClearHistory that also resets the conversation status.
handleClearHistoryResetsStatus(s) ==
    [s EXCEPT !.conversationMessages = <<>>, !.recommendations = <<>>,
              !.conversationStatus = "idle", !.calls = {}]

handleClearHistory(s) ==
    [s EXCEPT !.conversationMessages = <<>>, !.recommendations = <<>>, !.calls = {}]

\* The Start Session button is rendered while capture is off.  One
\* handleStartSession call is followed at a time.
StartSession ==
    /\ inTask = Null
    /\ ~isRecording
    /\ starting = "none"
    /\ CanConnect(Here)
    /\ Len(conversationMessages) < MaxEntries
    /\ BecomesWhole(handleStartSession(Whole))

MediaGranted ==
    /\ inTask = Null
    /\ starting = "media"
    /\ Len(conversationMessages) < MaxEntries
    /\ BecomesWhole(mediaGranted(Whole))

MediaDenied ==
    /\ inTask = Null
    /\ starting = "media"
    /\ Len(conversationMessages) < MaxEntries
    /\ BecomesWhole(mediaDenied(Whole))

\* The Stop Session button is rendered while capture is on.
StopSession ==
    /\ inTask = Null
    /\ isRecording
    /\ Len(conversationMessages) < MaxEntries
    /\ BecomesWhole(handleStopSession(Whole))

ClearHistory ==
    /\ inTask = Null
    /\ BecomesWhole(handleClearHistory(Whole))

\* The recorder delivers a chunk every 100 ms while it runs; the dashboard
\* hands it to sendAudioData.
OnAudioData(p) ==
    /\ inTask = Null
    /\ isRecording
    /\ Becomes(sendAudioData(Here, p))

SessionOpen(c) ==
    /\ inTask = Null
    /\ readyState[c] = "CONNECTING"
    /\ BecomesWhole(sessionOpen(Whole, c))

SessionError(c) ==
    /\ inTask = Null
    /\ readyState[c] \in {"CONNECTING", "OPEN", "CLOSING"}
    /\ BecomesWhole(sessionError(Whole, c))

SessionMessage(c, m) ==
    /\ inTask = Null
    /\ readyState[c] \in {"OPEN", "CLOSING"}
    /\ c \in opened
    /\ Len(onmessage(Here, m).conversationMessages) <= MaxEntries
    /\ Becomes(onmessage(Here, m))

NextDashboard ==
    \/ StartSession
    \/ MediaGranted
    \/ MediaDenied
    \/ StopSession
    \/ ClearHistory
    \/ \E p \in Payloads : OnAudioData(p)
    \/ \E c \in Conns : SessionOpen(c)
    \/ \E c \in Conns : SessionError(c)
    \/ \E c \in Conns, m \in Messages : SessionMessage(c, m)
    \/ \E c \in Conns, code \in CloseCodes : OnClose(c, code)
    \/ \E c \in Conns : ClosingStarts(c)
    \/ \E t \in TimerKinds : ReconnectTimerFires(t)

SpecDashboard == Init /\ [][NextDashboard]_vars

\* The close event of a connection the client closed, on a transport that
\* completes the closing handshake.
SessionClosed(c) ==
    /\ readyState[c] = "CLOSING"
    /\ OnClose(c, NormalClosure)

\* The dashboard on a reachable server and a stable transport: connections
\* open, stay open until the client closes them and close with the code the
\* client gave; the microphone may still be refused.
NextSession ==
    \/ StartSession
    \/ MediaGranted
    \/ MediaDenied
    \/ StopSession
    \/ ClearHistory
    \/ \E p \in Payloads : OnAudioData(p)
    \/ \E c \in Conns : SessionOpen(c)
    \/ \E c \in Conns, m \in Messages : SessionMessage(c, m)
    \/ \E c \in Conns : SessionClosed(c)

SpecSession == Init /\ [][NextSession]_vars

\* ------------------------------------------ useWebSocket, JSON-enveloped variant

\* Values a server may put in the status field of a status message: the four
\* ConversationStatus values, some other string, or no field at all.
JsonStatusValues == {"idle", "listening", "speaking", "paused", "thinking", Absent}

RecLists == {<<>>, <<"ask for a raise">>, <<"ask for a raise", "name a number">>}

JsonMessage(type, status, hasRecs, recs, message) ==
    [type |-> type, status |-> status, hasRecs |-> hasRecs,
     recommendations |-> recs, message |-> message]

\* Text frames by what JSON.parse and the switch on data.type make of them.
JsonMessages ==
    {JsonMessage("status", v, FALSE, <<>>, Absent) : v \in JsonStatusValues}
    \cup {JsonMessage(ty, Absent, FALSE, <<>>, Absent) :
            ty \in {"recommendations", "pause_detected", "speech_detected",
                    "ping", "malformed"}}
    \cup {JsonMessage(ty, Absent, TRUE, r, Absent) :
            ty \in {"recommendations", "pause_detected"}, r \in RecLists}
    \cup {JsonMessage("error", Absent, FALSE, <<>>, msg) :
            msg \in {Absent, "model overloaded"}}

\* onopen of the JSON variant: no handshake, the status becomes listening.
onopenJson(s, c) ==
    [s EXCEPT !.readyState[c] = "OPEN",
              !.opened = @ \cup {c},
              !.isConnected = TRUE,
              !.reconnectAttempts = 0,
              !.conversationStatus = "listening",
              !.calls = {}]

\* A variant of the JSON onmessage in which a status message cannot end a
\* pause.
onmessageJsonKeepsPaused(s, m) ==
    LET s1 == [s EXCEPT !.calls = {}] IN
    CASE m.type = "status" ->
            IF s.conversationStatus = "paused" THEN s1
            ELSE [s1 EXCEPT !.conversationStatus = m.status]
      [] m.type = "recommendations" -> onRecommendations(s1, m.recommendations)
      [] m.type = "pause_detected" ->
            LET s2 == [s1 EXCEPT !.conversationStatus = "paused"] IN
            IF m.hasRecs THEN onRecommendations(s2, m.recommendations) ELSE s2
      [] m.type = "speech_detected" -> [s1 EXCEPT !.conversationStatus = "speaking"]
      [] m.type = "error" ->
            [s1 EXCEPT !.error = IF m.message = Absent THEN "Server error" ELSE m.message]
      [] OTHER -> s1

\* A variant of the JSON onmessage in which a server error also ends the
\* conversation (status idle).
onmessageJsonErrorIdles(s, m) ==
    LET s1 == [s EXCEPT !.calls = {}] IN
    CASE m.type = "status" -> [s1 EXCEPT !.conversationStatus = m.status]
      [] m.type = "recommendations" -> onRecommendations(s1, m.recommendations)
      [] m.type = "pause_detected" ->
            LET s2 == [s1 EXCEPT !.conversationStatus = "paused"] IN
            IF m.hasRecs THEN onRecommendations(s2, m.recommendations) ELSE s2
      [] m.type = "speech_detected" -> [s1 EXCEPT !.conversationStatus = "speaking"]
      [] m.type = "error" ->
            [s1 EXCEPT !.error = IF m.message = Absent THEN "Server error" ELSE m.message,
                       !.conversationStatus = "idle"]
      [] OTHER -> s1

\* onmessage of the JSON variant: JSON.parse, then the switch on data.type;
\* a frame that does not parse and an unknown type are logged and dropped.
onmessageJson(s, m) ==
    LET s1 == [s EXCEPT !.calls = {}] IN
    CASE m.type = "status" -> [s1 EXCEPT !.conversationStatus = m.status]
      [] m.type = "recommendations" -> onRecommendations(s1, m.recommendations)
      [] m.type = "pause_detected" ->
            LET s2 == [s1 EXCEPT !.conversationStatus = "paused"] IN
            IF m.hasRecs THEN onRecommendations(s2, m.recommendations) ELSE s2
      [] m.type = "speech_detected" -> [s1 EXCEPT !.conversationStatus = "speaking"]
      [] m.type = "error" ->
            [s1 EXCEPT !.error = IF m.message = Absent THEN "Server error" ELSE m.message]
      [] OTHER -> s1

JsonOpen(c) ==
    /\ inTask = Null
    /\ readyState[c] = "CONNECTING"
    /\ Becomes(onopenJson(Here, c))

OnJsonMessage(c, m) ==
    /\ inTask = Null
    /\ readyState[c] \in {"OPEN", "CLOSING"}
    /\ c \in opened
    /\ Len(onmessageJson(Here, m).conversationMessages) <= MaxEntries
    /\ Becomes(onmessageJson(Here, m))

\* The JSON variant on a stable transport.  Its connect, disconnect and
\* onclose are the same statements as the binary variant's.
NextJson ==
    \/ Connect
    \/ Disconnect
    \/ ClearHistory
    \/ \E c \in Conns : JsonOpen(c)
    \/ \E c \in Conns, m \in JsonMessages : OnJsonMessage(c, m)
    \/ \E c \in Conns : SessionClosed(c)

SpecJson == Init /\ [][NextJson]_vars

\* ------------------------------------------------- Dedalus StreamingClient

\* Buffer.from('dummy audio data')
DummyAudio == "dummy audio data"

\* ws.send of the `ws` package by readyState: it throws while CONNECTING,
\* transmits while OPEN and sends nothing afterwards.
WsSend(k, c, data) ==
    IF k.readyState[c] = "CONNECTING" THEN {Call("throw", c, data, 0)}
    ELSE IF k.readyState[c] = "OPEN" THEN {Call("send_binary", c, data, 0)}
    ELSE {}

\* StreamingClient.connect: a new socket replaces this.ws.
streamingConnect(s) ==
    LET k == s.client
        c == SetMin({x \in Conns : k.readyState[x] \in {"NONE", "CLOSED"}})
    IN [s EXCEPT !.client = [k EXCEPT !.ws = c, !.readyState[c] = "CONNECTING",
                                      !.promise[c] = "pending"],
                 !.calls = {Call("connect", c, "", 0)}]

\* A variant of sendAudio that only tests that a socket exists.
sendAudioUnguarded(s, data) ==
    LET k == s.client IN
    [s EXCEPT !.calls = IF k.ws # Null THEN WsSend(k, k.ws, data) ELSE {}]

\* StreamingClient.sendAudio: send when this.ws is OPEN, else log an error.
sendAudio(s, data) ==
    LET k == s.client IN
    [s EXCEPT !.calls = IF k.ws # Null /\ k.readyState[k.ws] = "OPEN"
                        THEN WsSend(k, k.ws, data) ELSE {}]

\* StreamingClient.close: this.ws.close() when there is a socket; closing a
\* socket that is connecting or open starts the closing handshake.
streamingClose(s) ==
    LET k == s.client IN
    IF k.ws = Null THEN [s EXCEPT !.calls = {}]
    ELSE [s EXCEPT !.client.readyState[k.ws] =
                       IF @ \in {"CONNECTING", "OPEN"} THEN "CLOSING" ELSE @,
                   !.calls = {Call("close", k.ws, "", 0)}]

\* main() up to await client.connect().
mainStarts(s) == [streamingConnect(s) EXCEPT !.client.main = "connecting"]

\* The open event: the promise resolves; a main() waiting for it sends the
\* dummy chunk and arms the 2000 ms timer.
streamingOpen(s, c) ==
    LET s1 == [s EXCEPT !.client.readyState[c] = "OPEN",
                        !.client.promise[c] = "resolved",
                        !.calls = {}] IN
    IF s.client.main = "connecting" /\ s.client.ws = c
    THEN [sendAudio(s1, DummyAudio) EXCEPT !.client.main = "waiting"]
    ELSE s1

\* The error event, followed by the close event: the promise is rejected; a
\* main() waiting for it logs the failure and ends.
streamingError(s, c) ==
    [s EXCEPT !.client.readyState[c] = "CLOSED",
              !.client.promise[c] = IF @ = "pending" THEN "rejected" ELSE @,
              !.client.main = IF @ = "connecting" /\ s.client.ws = c THEN "failed" ELSE @,
              !.calls = {}]

\* The timer main() armed calls client.close().
mainTimer(s) == [streamingClose(s) EXCEPT !.client.main = "done"]

\* The example program is started on a client of its own.
MainStarts ==
    /\ client.main = "idle"
    /\ client.ws = Null
    /\ \A c \in Conns : client.readyState[c] = "NONE"
    /\ BecomesWhole(mainStarts(Whole))

MainTimer ==
    /\ client.main = "waiting"
    /\ BecomesWhole(mainTimer(Whole))

\* Another program calls the client's methods in any order.
StreamingConnect ==
    /\ client.main = "idle"
    /\ \E c \in Conns : client.readyState[c] \in {"NONE", "CLOSED"}
    /\ BecomesWhole(streamingConnect(Whole))

SendAudio(data) ==
    /\ client.main = "idle"
    /\ BecomesWhole(sendAudio(Whole, data))

StreamingClose ==
    /\ client.main = "idle"
    /\ BecomesWhole(streamingClose(Whole))

StreamingOpen(c) ==
    /\ client.readyState[c] = "CONNECTING"
    /\ BecomesWhole(streamingOpen(Whole, c))

StreamingError(c) ==
    /\ client.readyState[c] \in {"CONNECTING", "OPEN", "CLOSING"}
    /\ BecomesWhole(streamingError(Whole, c))

\* The close event of a socket that had opened; the handler only logs.
StreamingClosed(c) ==
    /\ client.readyState[c] \in {"OPEN", "CLOSING"}
    /\ client.promise[c] = "resolved"
    /\ BecomesWhole([Whole EXCEPT !.client.readyState[c] = "CLOSED", !.calls = {}])

\* The server starts the closing handshake.
StreamingClosing(c) ==
    /\ client.readyState[c] = "OPEN"
    /\ BecomesWhole([Whole EXCEPT !.client.readyState[c] = "CLOSING", !.calls = {}])

\* new StreamingClient(wsUrl): no socket yet.
InitStreaming ==
    /\ InitApp
    /\ client = [ws |-> Null, readyState |-> [c \in Conns |-> "NONE"],
                 promise |-> [c \in Conns |-> "none"], main |-> "idle"]
    /\ mockServer = Null

NextStreaming ==
    \/ MainStarts
    \/ MainTimer
    \/ StreamingConnect
    \/ \E data \in Payloads : SendAudio(data)
    \/ StreamingClose
    \/ \E c \in Conns : StreamingOpen(c)
    \/ \E c \in Conns : StreamingError(c)
    \/ \E c \in Conns : StreamingClosed(c)
    \/ \E c \in Conns : StreamingClosing(c)

SpecStreaming == InitStreaming /\ [][NextStreaming]_vars

\* ------------------------------------------------------- mock-server.js

\* The MockWebSocketServer process of src/client/mock-server.js.  Each
\* client has one socket on the server, with the readyState the ws package
\* gives it.  The pause timer (pauseIntervals) and the resume timers of a
\* client are kept with the milliseconds they still have to run; of the
\* timers of one client the one with the least time left fires first.  The
\* timers of the audio path start when an audio message arrives, which may
\* be at any time: they are kept without a time and fire in any order.

Clients == 1..MaxClients

\* Math.random() * (20000 - 5000) + 5000
MaxPauseInterval == 20000
MinPauseInterval == 5000

\* Math.random() * 1000 + 2000
MinPauseDuration == 2000
PauseDurationSpan == 1000

\* Math.random() is in [0, 1): the least and the greatest whole number of
\* milliseconds each expression yields.
PauseIntervals ==
    {MinPauseInterval, (MaxPauseInterval - MinPauseInterval) + MinPauseInterval - 1}

\* A variant of the pause duration that can outlast the interval to the
\* next pause.
PauseDurationsUpToInterval ==
    {MinPauseDuration, MinPauseInterval + PauseDurationSpan - 1}

PauseDurations == {MinPauseDuration, MinPauseDuration + PauseDurationSpan - 1}

\* discussionTips, first and last entry
Tips == {"Say less, listen more", "Listen for underlying concerns"}

Listening == [type |-> "status", status |-> "listening", recommendations |-> <<>>]

SpeechDetected ==
    [type |-> "speech_detected", status |-> "speaking", recommendations |-> <<>>]

PauseDetected(tip) ==
    [type |-> "pause_detected", status |-> "paused", recommendations |-> <<tip>>]

\* What a client sends: an audio_data envelope, another JSON message, or a
\* frame JSON.parse rejects (the binary chunks of the binary variant).
ClientFrames == {"audio_data", "other", "unparseable"}

\* sendMessage(ws, message): ws.send when ws.readyState === WebSocket.OPEN.
\* The observers awaiting (a pause_detected went to ws and no status
\* listening since) and pauses (pause_detected messages to ws, counted to 2)
\* follow what is sent.
sendMessage(m, ws, message) ==
    IF m.readyState[ws] = "OPEN"
    THEN [m EXCEPT !.sent = @ \cup {[to |-> ws, message |-> message]},
                   !.awaiting[ws] = IF message.type = "pause_detected" THEN TRUE
                                    ELSE IF message = Listening THEN FALSE ELSE @,
                   !.pauses[ws] = IF message.type = "pause_detected"
                                  THEN Min(@ + 1, 2) ELSE @]
    ELSE m

\* scheduleNextPause(): setTimeout(..., interval) and
\* pauseIntervals.set(ws, timeoutId).
scheduleNextPause(m, ws, interval) == [m EXCEPT !.pauseIntervals[ws] = {interval}]

\* stopPauseSimulation(ws): clearTimeout on the stored timer, delete the entry.
stopPauseSimulation(m, ws) == [m EXCEPT !.pauseIntervals[ws] = {}]

\* triggerPause(ws): return unless OPEN; send pause_detected with one tip;
\* setTimeout(resume, pauseDuration).
triggerPause(m, ws, tip, pauseDuration) ==
    IF m.readyState[ws] # "OPEN" THEN m
    ELSE [sendMessage(m, ws, PauseDetected(tip))
             EXCEPT !.resume[ws] = @ \cup {pauseDuration}]

\* The process ends: an uncaught exception, or process.exit(0) after SIGINT.
\* Its sockets are closed and its timers are gone.
exits(m, how) ==
    [m EXCEPT !.process = how,
              !.readyState = [c \in Clients |->
                                 IF @[c] \in {"OPEN", "CLOSING"} THEN "CLOSED" ELSE @[c]],
              !.clients = {},
              !.pauseIntervals = [c \in Clients |-> {}],
              !.resume = [c \in Clients |-> {}],
              !.speech = [c \in Clients |-> FALSE],
              !.listen = [c \in Clients |-> FALSE],
              !.sent = {}]

\* wss.on('connection'): clients.add(ws), sendMessage(status listening),
\* startPauseSimulation(ws).  The file imports WebSocketServer only, so
\* WebSocket.OPEN reads the runtime's global WebSocket: where there is none
\* the first sendMessage raises a ReferenceError nothing catches.
connection(m, ws, interval) ==
    LET m1 == [m EXCEPT !.readyState[ws] = "OPEN",
                        !.clients = @ \cup {ws},
                        !.awaiting[ws] = FALSE,
                        !.pauses[ws] = 0,
                        !.sent = {}]
    IN IF ~m.globalWebSocket THEN exits(m1, "crashed")
       ELSE scheduleNextPause(sendMessage(m1, ws, Listening), ws, interval)

\* ws.on('message'): JSON.parse in a try block; an audio_data message calls
\* simulateAudioProcessing, which with Math.random() < 0.3 (hit) sets the
\* 100 ms timer of the speech_detected message.
message(m, ws, frame, hit) ==
    [m EXCEPT !.sent = {},
              !.speech[ws] = IF frame = "audio_data" /\ hit THEN TRUE ELSE @]

\* ws.on('close') and ws.on('error'): clients.delete(ws),
\* stopPauseSimulation(ws).
closed(m, ws, state) ==
    stopPauseSimulation([m EXCEPT !.readyState[ws] = state,
                                  !.clients = @ \ {ws},
                                  !.sent = {}], ws)

\* The callback of the pause timer: triggerPause(ws); scheduleNextPause().
pauseTimer(m, ws, t, tip, pauseDuration, interval) ==
    LET m1 == [m EXCEPT !.sent = {},
                        !.resume[ws] = {r - t : r \in @}]
    IN scheduleNextPause(triggerPause(m1, ws, tip, pauseDuration), ws, interval)

\* The callback of a resume timer: status listening if the socket is OPEN.
resumeTimer(m, ws, t) ==
    LET m1 == [m EXCEPT !.sent = {},
                        !.resume[ws] = {r - t : r \in @ \ {t}},
                        !.pauseIntervals[ws] = {p - t : p \in @}]
    IN sendMessage(m1, ws, Listening)

\* The 100 ms callback of simulateAudioProcessing: speech_detected if the
\* socket is OPEN, and then the timer of the status listening message.
\* Other speech timers of the socket may be left (more).
speechTimer(m, ws, more) ==
    LET m1 == [m EXCEPT !.sent = {}, !.speech[ws] = more]
    IN IF m1.readyState[ws] = "OPEN"
       THEN [sendMessage(m1, ws, SpeechDetected) EXCEPT !.listen[ws] = TRUE]
       ELSE m1

\* The inner callback of simulateAudioProcessing.
listenTimer(m, ws, more) ==
    sendMessage([m EXCEPT !.sent = {}, !.listen[ws] = more], ws, Listening)

\* The timers of one socket that are kept with their time.
Timed(m, ws) == m.pauseIntervals[ws] \cup m.resume[ws]

\* A CLOSED socket with no timer left runs nothing again.
Forgotten(m, ws) ==
    /\ m.readyState[ws] = "CLOSED"
    /\ Timed(m, ws) = {}
    /\ ~m.speech[ws]
    /\ ~m.listen[ws]

MockBecomes(m) ==
    /\ mockServer' = m
    /\ UNCHANGED <<wsRef, readyState, opened, handshakes, reconnectTimeoutRef,
                   orphanTimers, reconnectAttempts, initialMessageSent,
                   isConnected, error, conversationStatus, recommendations,
                   conversationMessages, inTask, isRecording, captureError,
                   starting, awaited, client, retried, calls>>

Running == mockServer.process = "running"

MockConnection(ws) ==
    /\ Running
    /\ mockServer.readyState[ws] = "NONE" \/ Forgotten(mockServer, ws)
    /\ \E interval \in PauseIntervals :
          MockBecomes(connection(mockServer, ws, interval))

MockMessage(ws) ==
    /\ Running
    /\ mockServer.readyState[ws] = "OPEN"
    /\ \E frame \in ClientFrames, hit \in BOOLEAN :
          MockBecomes(message(mockServer, ws, frame, hit))

\* The closing handshake starts, or the connection fails: the ws package
\* sets readyState to CLOSING before it emits anything.
MockClosing(ws) ==
    /\ Running
    /\ mockServer.readyState[ws] = "OPEN"
    /\ MockBecomes([mockServer EXCEPT !.readyState[ws] = "CLOSING", !.sent = {}])

MockError(ws) ==
    /\ Running
    /\ mockServer.readyState[ws] = "CLOSING"
    /\ ws \in mockServer.clients
    /\ MockBecomes(closed(mockServer, ws, "CLOSING"))

MockClose(ws) ==
    /\ Running
    /\ mockServer.readyState[ws] = "CLOSING"
    /\ MockBecomes(closed(mockServer, ws, "CLOSED"))

PauseTimerFires(ws) ==
    /\ Running
    /\ \E t \in mockServer.pauseIntervals[ws] :
          /\ \A u \in Timed(mockServer, ws) : t <= u
          /\ \E tip \in Tips, d \in PauseDurations, interval \in PauseIntervals :
                MockBecomes(pauseTimer(mockServer, ws, t, tip, d, interval))

ResumeTimerFires(ws) ==
    /\ Running
    /\ \E t \in mockServer.resume[ws] :
          /\ \A u \in Timed(mockServer, ws) : t <= u
          /\ MockBecomes(resumeTimer(mockServer, ws, t))

SpeechTimerFires(ws) ==
    /\ Running
    /\ mockServer.speech[ws]
    /\ \E more \in BOOLEAN : MockBecomes(speechTimer(mockServer, ws, more))

ListenTimerFires(ws) ==
    /\ Running
    /\ mockServer.listen[ws]
    /\ \E more \in BOOLEAN : MockBecomes(listenTimer(mockServer, ws, more))

\* SIGINT: mockServer.stop(); process.exit(0).
MockStop ==
    /\ Running
    /\ MockBecomes(exits(mockServer, "stopped"))

\* new MockWebSocketServer(); mockServer.start(), on a runtime with or
\* without a global WebSocket.
InitMock ==
    /\ InitApp
    /\ client = Null
    /\ \E g \in BOOLEAN :
          mockServer = [process |-> "running",
                        globalWebSocket |-> g,
                        readyState |-> [c \in Clients |-> "NONE"],
                        clients |-> {},
                        pauseIntervals |-> [c \in Clients |-> {}],
                        resume |-> [c \in Clients |-> {}],
                        speech |-> [c \in Clients |-> FALSE],
                        listen |-> [c \in Clients |-> FALSE],
                        awaiting |-> [c \in Clients |-> FALSE],
                        pauses |-> [c \in Clients |-> 0],
                        sent |-> {}]

NextMock ==
    \/ \E ws \in Clients : MockConnection(ws)
    \/ \E ws \in Clients : MockMessage(ws)
    \/ \E ws \in Clients : MockClosing(ws)
    \/ \E ws \in Clients : MockError(ws)
    \/ \E ws \in Clients : MockClose(ws)
    \/ \E ws \in Clients : PauseTimerFires(ws)
    \/ \E ws \in Clients : ResumeTimerFires(ws)
    \/ \E ws \in Clients : SpeechTimerFires(ws)
    \/ \E ws \in Clients : ListenTimerFires(ws)
    \/ MockStop

\* Node runs the callback of every timer that is due.
SpecMock ==
    /\ InitMock
    /\ [][NextMock]_vars
    /\ \A ws \in Clients : WF_vars(ResumeTimerFires(ws))

\* ------------------------------------------------------------------ types

\* The values the binary variant, the capture hook and the dashboard keep.
TypeOK ==
    /\ wsRef \in Conns \cup {Null}
    /\ readyState \in [Conns -> {"NONE", "CONNECTING", "OPEN", "CLOSING", "CLOSED"}]
    /\ opened \subseteq Conns
    /\ orphanTimers \in 0..MaxTimers
    /\ reconnectTimeoutRef \in {None, "pending", "fired"}
    /\ reconnectAttempts \in Nat
    /\ conversationStatus \in {"idle", "listening", "speaking", "paused"}
    /\ Len(conversationMessages) <= MaxEntries
    /\ isRecording \in BOOLEAN
    /\ captureError \in {None, MicrophoneError}
    /\ starting \in {"none", "connect", "media"}
    /\ awaited \in Conns \cup {Null}
    /\ retried \subseteq Conns

\* ----------------------------------------------------------------- claims

\* The audio frames the last handler put on the transport.
AudioCalls == {k \in calls : k.fn = "send_binary"}

\* The connections that are connecting or open.
Live == {c \in Conns : readyState[c] \in {"CONNECTING", "OPEN"}}

\* C1 (P1, handshake before audio): a sendAudioData call puts an audio frame
\* only on a connection that is open and has already been sent the
\* handshake; and once the current connection is open and has been sent the
\* handshake, each sendAudioData(p) puts exactly one binary message with
\* payload p on it.
C1_HandshakeBeforeAudio ==
    [][\A p \in Payloads :
          SendAudioData(p) =>
             /\ \A k \in calls' :
                   k.fn = "send_binary" =>
                      readyState[k.conn] = "OPEN" /\ handshakes[k.conn] >= 1
             /\ (wsRef # Null /\ readyState[wsRef] = "OPEN" /\ handshakes[wsRef] >= 1)
                   => calls' = {Call("send_binary", wsRef, p, 0)}]_vars

\* C1 witness: an audio chunk went out on a connection after its handshake.
C1_Witness ==
    \E k \in AudioCalls : handshakes[k.conn] >= 1 /\ k.text = "chunkB"

\* C2 (P2, single handshake): every connection whose open event has fired
\* has been sent the handshake message exactly once.
C2_SingleHandshake == \A c \in opened : handshakes[c] = 1

\* C3: at most one connection object is connecting or open at any time.
C3_OneLiveConnection == Cardinality(Live) <= 1

\* C4: connect() called while the current connection is still connecting is
\* a no-op: the connection objects and wsRef stay as they are.
C4_ReentrantConnectNoOp ==
    [][(Connect /\ wsRef # Null /\ readyState[wsRef] = "CONNECTING")
          => UNCHANGED <<wsRef, readyState>>]_vars

\* C5: while the session is manually closed (wsRef is null: after
\* disconnect(), until connect() is called again) no step but an explicit
\* connect() schedules a reconnect timer or creates a connection.
C5_NoReconnectAfterDisconnect ==
    [][(wsRef = Null /\ ~Connect)
          => /\ PendingTimers(Here)' <= PendingTimers(Here)
             /\ \A c \in Conns :
                   readyState'[c] = "CONNECTING" => readyState[c] = "CONNECTING"]_vars

\* C6 (P4): when disconnect() has just closed connection c and c's close
\* event arrives with code 1000, no reconnect timer is scheduled afterwards
\* and the conversation status is idle.
C6_NoReconnectOnManualClose ==
    [][\A c \in Conns :
          (Call("close", c, "Manual disconnect", NormalClosure) \in calls
           /\ OnClose(c, NormalClosure))
             => PendingTimers(Here)' = 0 /\ conversationStatus' = "idle"]_vars

\* C7: at most one reconnect timer is scheduled and not yet fired.
C7_OneReconnectTimer == PendingTimers(Here) <= 1

\* C8: when disconnect() returns no reconnect timer is pending, the active
\* connection (if any) has been closed with code 1000 and is no longer
\* connecting or open, the attempt counter is 0, the error is cleared and
\* isConnected is false.
C8_DisconnectPostcondition ==
    [][Disconnect =>
          /\ PendingTimers(Here)' = 0
          /\ wsRef # Null =>
                /\ Call("close", wsRef, "Manual disconnect", NormalClosure) \in calls'
                /\ readyState'[wsRef] \notin {"CONNECTING", "OPEN"}
          /\ reconnectAttempts' = 0
          /\ error' = None
          /\ isConnected' = FALSE]_vars

\* The session fields disconnect() is about.
Session(s) ==
    <<s.wsRef, s.readyState, s.reconnectTimeoutRef, s.orphanTimers,
      s.reconnectAttempts, s.error, s.isConnected>>

\* C9: disconnect() is idempotent: from any state, a second disconnect()
\* right after the first leaves connection handle, sockets, timers, attempt
\* counter, error and isConnected as the first left them, and calls close on
\* no connection.
C9_DisconnectIdempotent ==
    inTask = Null =>
       LET once == disconnect(Here)
           twice == disconnect(once)
       IN /\ Session(twice) = Session(once)
          /\ \A k \in twice.calls : k.fn # "close"

\* C9 witness: disconnect() has just closed an open connection and cleared a
\* pending timer.
C9_Witness ==
    /\ wsRef = Null
    /\ \E k \in calls : k.fn = "close" /\ readyState[k.conn] = "CLOSING"
    /\ \E k \in calls : k.fn = "clearTimeout"

\* The delays of P3, for attempt counter 0..4.
DelayTable == <<1000, 2000, 4000, 8000, 16000>>

\* C10 (P3, backoff): a reconnect timer is only ever scheduled with the
\* attempt counter k below 5, and its delay is min(1000 * 2^k, 30000):
\* 1000, 2000, 4000, 8000, 16000 ms for k = 0..4.
C10_Backoff ==
    \A k \in calls :
       k.fn = "setTimeout" =>
          /\ reconnectAttempts < 5
          /\ k.num = DelayTable[reconnectAttempts + 1]

\* C10 witness: the retry after the fourth failed retry is scheduled (16 s).
C10_Witness ==
    \E k \in calls : k.fn = "setTimeout" /\ reconnectAttempts = 4 /\ k.num = 16000

\* The ceiling: the fifth retry has failed, its close event (1006, after the
\* error event) has been handled with the counter at 5 and scheduled nothing.
C10_CeilingReached ==
    /\ reconnectAttempts = 5
    /\ inTask = Null
    /\ error = ConnectionError
    /\ calls = {}
    /\ PendingTimers(Here) = 0
    /\ wsRef # Null /\ readyState[wsRef] = "CLOSED"

\* C11 (reconnect decision): wherever a close event can fire, on any
\* connection and with any code, the handler schedules no retry when the
\* code is 1000 or the attempt counter is at 5 or more (no setTimeout, the
\* pending timers and the timer ref stay as they are), and schedules exactly
\* one retry when the code is another one and the counter is below 5 (one
\* setTimeout, one more pending timer).
C11_ReconnectDecision ==
    LET s == Here IN
    \A c \in Conns, code \in CloseCodes :
       CloseEventOf(s, c, code) =>
          LET after == onclose(s, c, code) IN
          IF code # 1000 /\ reconnectAttempts < 5
          THEN /\ Cardinality({k \in after.calls : k.fn = "setTimeout"}) = 1
               /\ PendingTimers(after) = PendingTimers(s) + 1
          ELSE /\ after.calls = {}
               /\ PendingTimers(after) = PendingTimers(s)
               /\ after.reconnectTimeoutRef = reconnectTimeoutRef

\* C11 witness: the close event (1006) of the fifth retry has been handled
\* with the counter at 5: it scheduled nothing and left the status idle.
C11_Witness ==
    /\ C10_CeilingReached
    /\ reconnectTimeoutRef = "fired"
    /\ conversationStatus = "idle"
    /\ ~isConnected

\* C12 (attempt-counter discipline): the attempt counter changes only by
\* going up by one in a step in which a reconnect timer fires, and by going
\* to zero in an open event or in disconnect(): no step of connect(),
\* sendAudioData, a message, error or close event (the close event that
\* schedules a retry included) changes it.
C12_AttemptCounter ==
    [][reconnectAttempts' # reconnectAttempts
          => \/ /\ reconnectAttempts' = reconnectAttempts + 1
                /\ \E t \in TimerKinds : ReconnectTimerFires(t)
             \/ /\ reconnectAttempts' = 0
                /\ (Disconnect \/ \E c \in Conns : OnOpen(c))]_vars

\* C12 witness: two retries have fired and the third has just been
\* scheduled by a close event, with the counter still at 2.
C12_Witness ==
    /\ reconnectAttempts = 2
    /\ \E k \in calls : k.fn = "setTimeout" /\ k.num = Backoff(2)
    /\ reconnectTimeoutRef = "pending"

\* The automatic loop has used up its attempts: the counter has reached the
\* maximum and every connection attempted so far has failed and closed.
Exhausted ==
    /\ reconnectAttempts >= maxReconnectAttempts
    /\ inTask = Null
    /\ \A c \in Conns : readyState[c] \in {"NONE", "CLOSED"}

\* C13 (ReconnectExhausted): when every connection attempt fails, then once
\* the fifth retry has fired and failed the session rests: no reconnect
\* timer is scheduled (so nothing but an explicit connect() attempts a
\* connection again), the status is idle and isConnected is false.
C13_ReconnectExhausted ==
    Exhausted =>
       /\ PendingTimers(Here) = 0
       /\ conversationStatus = "idle"
       /\ ~isConnected

\* C14 (ConnectError does not auto-retry): when the connection an explicit
\* connect() created (the current one, with no retry scheduled before)
\* fails before it opens, the close event that follows the error event
\* leaves the error stored and schedules no reconnect timer.
C14_ConnectErrorNoRetry ==
    [][\A c \in Conns :
          (/\ OnClose(c, 1006)
           /\ inTask = c /\ c = wsRef /\ c \notin opened
           /\ reconnectTimeoutRef = None /\ orphanTimers = 0)
             => /\ error' = ConnectionError
                /\ PendingTimers(Here)' = 0
                /\ \A k \in calls' : k.fn # "setTimeout"]_vars

\* State s restricted to the fields named.
Kept(s, fields) == [f \in fields |-> s[f]]

\* C15: wherever connect() is called while the current connection is open,
\* it is a no-op: no connection object is created or changed, wsRef stays,
\* nothing is sent (no handshake) and no timer is touched, and the handshake
\* flag, the attempt counter, the reconnect timers, the conversation status
\* and isConnected stay as they are.
C15_ConnectWhenOpenNoOp ==
    (/\ inTask = Null /\ CanConnect(Here)
     /\ wsRef # Null /\ readyState[wsRef] = "OPEN")
       => LET after == connect(Here)
              same == {"wsRef", "readyState", "opened", "handshakes",
                       "initialMessageSent", "reconnectAttempts",
                       "reconnectTimeoutRef", "orphanTimers",
                       "conversationStatus", "isConnected"}
          IN /\ Kept(after, same) = Kept(Here, same)
             /\ after.calls = {}

\* C15 witness: connect() has returned on a session whose connection is
\* open and handshaken while a close event of an older connection has left
\* a retry pending and isConnected false: the state is as connect() leaves
\* it, and another connect() is the same no-op.
C15_Witness ==
    /\ inTask = Null
    /\ wsRef # Null /\ readyState[wsRef] = "OPEN" /\ handshakes[wsRef] = 1
    /\ PendingTimers(Here) = 1
    /\ ~isConnected
    /\ connect(Here) = Here

\* C16 (TransportError): wherever an error event can fire, the handler only
\* stores the error message: it calls neither close nor setTimeout (it
\* calls nothing), and wsRef, isConnected, the conversation status, the
\* reconnect timers, the attempt counter, the handshake flag, the
\* recommendations and the log stay as they are.
C16_ErrorOnlyStored ==
    \A c \in Conns :
       (inTask = Null /\ readyState[c] \in {"CONNECTING", "OPEN", "CLOSING"})
          => LET after == onerror(Here, c)
                 same == {"wsRef", "isConnected", "conversationStatus",
                          "reconnectTimeoutRef", "orphanTimers",
                          "reconnectAttempts", "initialMessageSent",
                          "recommendations", "conversationMessages"}
             IN /\ after.error = ConnectionError
                /\ after.calls = {}
                /\ Kept(after, same) = Kept(Here, same)

\* C16 witness: the error event of the current, established connection has
\* been handled and its close event has not: the error is stored, the
\* session still counts as connected and the status is still paused.
C16_Witness ==
    /\ inTask # Null /\ inTask = wsRef /\ inTask \in opened
    /\ error = ConnectionError
    /\ isConnected
    /\ conversationStatus = "paused"
    /\ PendingTimers(Here) = 0

\* C17 (P5): wherever a close event can fire, on any connection, with any
\* close code and from any status (idle included), the handler leaves the
\* conversation status idle, whether or not it schedules a retry.
C17_CloseSetsIdle ==
    LET s == Here IN
    \A c \in Conns, code \in CloseCodes :
       CloseEventOf(s, c, code)
          => onclose(s, c, code).conversationStatus = "idle"

\* C17 witness: the current connection, established and with a message in
\* the log, was closed with a code other than 1000: the close event has
\* scheduled a retry and the status is idle.
C17_Witness ==
    /\ conversationStatus = "idle"
    /\ \E k \in calls : k.fn = "setTimeout"
    /\ wsRef # Null /\ wsRef \in opened /\ readyState[wsRef] = "CLOSED"
    /\ handshakes[wsRef] = 1
    /\ Len(conversationMessages) = 1

\* A text payload that is not JSON.
Malformed == [kind |-> "malformed", pause |-> FALSE, transcription |-> Absent]

\* C18 (P6, DecodeError): wherever a message event can fire, a text that
\* is not valid JSON changes nothing: conversation status, log,
\* recommendations, error, isConnected, wsRef, the sockets, the handshake
\* flag, the timers and the attempt counter stay as they are and nothing is
\* sent; the connection it came on stays able to deliver later messages.
C18_MalformedDropped ==
    inTask = Null =>
       LET after == onmessage(Here, Malformed) IN
       \A c \in opened :
          readyState[c] \in {"OPEN", "CLOSING"}
             => /\ after = [Here EXCEPT !.calls = {}]
                /\ after.readyState[c] \in {"OPEN", "CLOSING"} /\ c \in after.opened

\* C18 witness: a message has been handled on the current, open connection
\* of a paused session with an entry in the log, and the state is as a
\* malformed payload leaves it.
C18_Witness ==
    /\ inTask = Null
    /\ wsRef # Null /\ readyState[wsRef] = "OPEN" /\ wsRef \in opened
    /\ isConnected
    /\ conversationStatus = "paused"
    /\ Len(conversationMessages) = 1 /\ Len(recommendations) = 1
    /\ onmessage(Here, Malformed) = Here

\* The decoded messages that carry is_there_a_pause.
PauseMessages == {m \in Messages : m.kind = "pause"}

\* C19 (P7, pause/text decoupling): wherever a message event can fire, for
\* every decoded message carrying is_there_a_pause the status becomes paused
\* when the flag is true and listening when it is false; and, whatever the
\* flag, exactly one agent entry with the transcription text is appended to
\* the log when the text is non-blank, and the log stays as it is when the
\* text is absent, empty or blank.
C19_PauseTextDecoupled ==
    (inTask = Null /\ \E c \in opened : readyState[c] \in {"OPEN", "CLOSING"})
       => \A m \in PauseMessages :
             LET after == onmessage(Here, m) IN
             /\ after.conversationStatus = IF m.pause THEN "paused" ELSE "listening"
             /\ after.conversationMessages =
                   IF m.transcription \in {Absent, "", "   "}
                   THEN conversationMessages
                   ELSE Append(conversationMessages,
                               [type |-> "agent", content |-> m.transcription])

\* C19 witness: a message with the flag false and a text has been handled:
\* the status is listening and the text is the one agent entry of the log.
C19_Witness ==
    /\ conversationStatus = "listening"
    /\ conversationMessages = <<[type |-> "agent", content |-> "let's pause here"]>>
    /\ recommendations = <<"let's pause here">>
    /\ calls = {}

\* C20: an open event sets the status to listening (and the handshake flag)
\* only together with a successful handshake send on the connection that
\* opened: whenever the handler of connection c's open event has done so,
\* it has sent the initial message on c.
C20_ListeningOnlyWithHandshake ==
    [][\A c \in Conns :
          (OnOpen(c) /\ initialMessageSent')
             => /\ conversationStatus' = "listening"
                /\ Call("send_text", c, InitialMessage, 0) \in calls'
                /\ handshakes'[c] >= 1]_vars

\* C21 (start-session fails when a sub-step fails): the "Session started"
\* system message is appended to the log only by a start-session whose
\* connect() and startRecording() both succeeded, so the step that appends it
\* leaves capture running.
C21_StartMessageOnlyOnSuccess ==
    [][(/\ Len(conversationMessages') = Len(conversationMessages) + 1
        /\ conversationMessages'[Len(conversationMessages')] = StartMessage)
          => isRecording' /\ captureError' = None]_vars

\* The last start-session connected and then failed to start capture, and
\* nothing has been started since.
HalfStarted == captureError = MicrophoneError /\ starting = "none"

\* C22 (no rollback of a half-started session): after connect() succeeded and
\* startRecording() failed the connection stays open, with isConnected true
\* and the handshake sent, and capture stays off.
C22_NoRollback ==
    HalfStarted =>
       /\ wsRef # Null
       /\ readyState[wsRef] = "OPEN"
       /\ handshakes[wsRef] >= 1
       /\ initialMessageSent
       /\ isConnected
       /\ ~isRecording

\* C23 (stop-session postcondition): from any state, stop-session leaves
\* capture off, the session disconnected (no current connection, isConnected
\* false, the former connection told to close with code 1000, the stored
\* reconnect timer cancelled), status idle, the recommendations empty, and
\* the log extended by exactly one system entry 'Session ended'.
C23_StopSessionPost ==
    inTask = Null =>
       LET after == handleStopSession(Whole) IN
       /\ ~after.isRecording
       /\ after.wsRef = Null
       /\ ~after.isConnected
       /\ after.reconnectTimeoutRef = None
       /\ wsRef # Null =>
              Call("close", wsRef, "Manual disconnect", NormalClosure) \in after.calls
       /\ after.conversationStatus = "idle"
       /\ after.recommendations = <<>>
       /\ after.conversationMessages = Append(conversationMessages, EndMessage)

C23_Witness ==
    /\ conversationMessages =
          <<StartMessage, [type |-> "agent", content |-> "let's pause here"], EndMessage>>
    /\ \E k \in calls : k.fn = "close" /\ k.num = NormalClosure
    /\ ~isRecording
    /\ wsRef = Null
    /\ conversationStatus = "idle"
    /\ recommendations = <<>>

\* What an observer of the dashboard sees.
Observable(s) ==
    Kept(s, {"conversationStatus", "recommendations", "conversationMessages",
             "isConnected", "isRecording"})

\* C24 (stop-session idempotent): calling stop-session twice in a row leaves
\* status, recommendations, log, isConnected and isRecording as calling it
\* once does.
C24_StopSessionIdempotent ==
    inTask = Null =>
       Observable(handleStopSession(handleStopSession(Whole)))
          = Observable(handleStopSession(Whole))

\* C25 (clear-history frame): clear-history empties the log and the
\* recommendations and leaves the connection state, the capture state and
\* the conversation status as they were.
C25_ClearHistoryFrame ==
    inTask = Null =>
       LET after == handleClearHistory(Whole)
           rest == {"wsRef", "readyState", "opened", "handshakes",
                    "reconnectTimeoutRef", "orphanTimers", "reconnectAttempts",
                    "initialMessageSent", "isConnected", "error",
                    "conversationStatus", "inTask", "isRecording",
                    "captureError", "starting", "awaited"}
       IN /\ after.conversationMessages = <<>>
          /\ after.recommendations = <<>>
          /\ Kept(after, rest) = Kept(Whole, rest)
          /\ after.calls = {}

C25_Witness ==
    /\ conversationMessages = <<>>
    /\ recommendations = <<>>
    /\ isRecording
    /\ isConnected
    /\ conversationStatus = "paused"
    /\ reconnectTimeoutRef = "pending"

IsPrefix(a, b) == Len(a) <= Len(b) /\ SubSeq(b, 1, Len(a)) = a

\* C26 (log append-only): every step that changes the log either keeps the
\* previous log as a prefix of the new one or is a clear-history.
C26_LogAppendOnly ==
    [][conversationMessages' # conversationMessages
          => \/ IsPrefix(conversationMessages, conversationMessages')
             \/ ClearHistory]_vars

C26_Witness ==
    /\ conversationMessages =
          <<[type |-> "agent", content |-> "let's pause here"], StartMessage, EndMessage>>
    /\ recommendations = <<>>

\* C27 (no buffering, no replay of audio): an audio frame reaches the
\* transport only in a sendAudioData step taken while the current connection
\* is open and the handshake is complete, and that step sends exactly the one
\* chunk it was handed; a chunk handed over at any other moment is never
\* sent, so frames sent never outnumber calls made with the gate open.
C27_NoReplay ==
    [][AudioCalls' # {}
          => \E p \in Payloads :
                /\ SendAudioData(p)
                /\ wsRef # Null
                /\ readyState[wsRef] = "OPEN"
                /\ initialMessageSent
                /\ calls' = {Call("send_binary", wsRef, p, 0)}]_vars

C27_Witness ==
    /\ AudioCalls = {Call("send_binary", wsRef, "chunkB", 0)}
    /\ Cardinality(opened) = 2
    /\ \E c \in opened : readyState[c] = "CLOSING"

\* C28 (end-to-end scenario on a stable transport): when capture starts the
\* current connection is open and has been sent the handshake; each chunk the
\* recorder produces goes out as exactly one binary frame on it; a server
\* reply with a pause and a non-blank transcription makes status paused and
\* appends exactly one agent entry with that text; stop-session stops
\* capture, closes the connection with code 1000 and leaves status idle; and
\* neither it nor the close event that follows schedules a reconnect.
C28_EndToEnd ==
    [][/\ (~isRecording /\ isRecording')
            => /\ wsRef # Null
               /\ readyState[wsRef] = "OPEN"
               /\ handshakes[wsRef] >= 1
               /\ initialMessageSent
       /\ \A p \in Payloads :
             OnAudioData(p) => calls' = {Call("send_binary", wsRef, p, 0)}
       /\ \A c \in Conns, m \in PauseMessages :
             (SessionMessage(c, m) /\ m.pause /\ Trim(m.transcription) # ""
                 /\ m.transcription # Absent)
                => /\ conversationStatus' = "paused"
                   /\ conversationMessages' =
                         Append(conversationMessages,
                                [type |-> "agent", content |-> m.transcription])
       /\ StopSession
            => /\ ~isRecording'
               /\ calls' = {Call("close", wsRef, "Manual disconnect", NormalClosure)}
               /\ readyState'[wsRef] = "CLOSING"
               /\ conversationStatus' = "idle"
       /\ PendingTimers(Here)' = 0
       /\ \A k \in calls' : k.fn # "setTimeout"]_vars

C28_Witness ==
    /\ conversationMessages =
          <<StartMessage, [type |-> "agent", content |-> "let's pause here"], EndMessage>>
    /\ \A c \in Conns : readyState[c] = "NONE"
    /\ calls = {}
    /\ ~isRecording
    /\ ~isConnected
    /\ conversationStatus = "idle"
    /\ PendingTimers(Here) = 0

StatusMessages == {m \in JsonMessages : m.type = "status"}

\* C29 (JSON variant, status-update): a message of type status sets the
\* conversation status to the value it carries, whatever the current status
\* and whatever the value, and changes neither the log nor the
\* recommendations.
C29_JsonStatusVerbatim ==
    \A m \in StatusMessages :
       LET after == onmessageJson(Here, m) IN
       /\ after.conversationStatus = m.status
       /\ after.conversationMessages = conversationMessages
       /\ after.recommendations = recommendations

C29_Witness ==
    /\ conversationStatus = "idle"
    /\ isConnected
    /\ wsRef # Null
    /\ readyState[wsRef] = "OPEN"
    /\ recommendations # <<>>
    /\ Len(conversationMessages) = MaxEntries

\* C30 (Dedalus StreamingClient): sendAudio transmits the buffer exactly when
\* this.ws is open; a call with no socket, before the promise of connect()
\* has resolved, or after close() sends nothing and does not throw; and the
\* example program calls connect, then sends the dummy chunk once on the open
\* socket, then calls close, in that order and nothing else.
C30_StreamingClient ==
    [][/\ \A k \in calls' : k.fn # "throw"
       /\ \A k \in calls' :
             k.fn = "send_binary" =>
                client'.readyState[k.conn] = "OPEN" /\ client'.promise[k.conn] = "resolved"
       /\ \A data \in Payloads :
             SendAudio(data) =>
                calls' = IF client.ws # Null /\ client.readyState[client.ws] = "OPEN"
                         THEN {Call("send_binary", client.ws, data, 0)} ELSE {}
       /\ client.main # client'.main
            => \/ /\ client.main = "idle" /\ client'.main = "connecting"
                  /\ calls' = {Call("connect", client'.ws, "", 0)}
               \/ /\ client.main = "connecting" /\ client'.main = "waiting"
                  /\ calls' = {Call("send_binary", client.ws, DummyAudio, 0)}
               \/ /\ client.main = "connecting" /\ client'.main = "failed"
                  /\ calls' = {}
               \/ /\ client.main = "waiting" /\ client'.main = "done"
                  /\ calls' = {Call("close", client.ws, "", 0)}
       /\ (client.main # "idle" /\ client.main = client'.main) => calls' = {}]_vars

C30_Witness ==
    /\ client.main = "done"
    /\ calls = {Call("close", client.ws, "", 0)}
    /\ client.readyState[client.ws] = "CLOSING"
    /\ client.promise[client.ws] = "resolved"

\* The agent entries onRecommendations appends for a list of recommendations.
AgentEntries(recs) == [i \in 1..Len(recs) |-> [type |-> "agent", content |-> recs[i]]]

\* C31 (JSON variant, decode): pause_detected sets status paused and, when it
\* carries recommendations, stores them and appends one agent entry per
\* recommendation in order; speech_detected sets status speaking;
\* recommendations replaces the recommendations list and keeps the status;
\* error stores the error and keeps the status; any other type, and a frame
\* that does not parse, changes neither status, log nor error.
C31_JsonDecode ==
    \A m \in JsonMessages \ StatusMessages :
       LET after == onmessageJson(Here, m) IN
       CASE m.type = "pause_detected" ->
               /\ after.conversationStatus = "paused"
               /\ after.error = error
               /\ IF m.hasRecs
                  THEN /\ after.recommendations = m.recommendations
                       /\ after.conversationMessages =
                             conversationMessages \o AgentEntries(m.recommendations)
                  ELSE /\ after.recommendations = recommendations
                       /\ after.conversationMessages = conversationMessages
         [] m.type = "speech_detected" ->
               /\ after.conversationStatus = "speaking"
               /\ after.recommendations = recommendations
               /\ after.conversationMessages = conversationMessages
               /\ after.error = error
         [] m.type = "recommendations" ->
               /\ after.recommendations = (IF m.hasRecs THEN m.recommendations ELSE <<>>)
               /\ after.conversationStatus = conversationStatus
               /\ after.error = error
         [] m.type = "error" ->
               /\ after.error = (IF m.message = Absent THEN "Server error" ELSE m.message)
               /\ after.conversationStatus = conversationStatus
               /\ after.recommendations = recommendations
               /\ after.conversationMessages = conversationMessages
         [] OTHER ->
               /\ after.conversationStatus = conversationStatus
               /\ after.conversationMessages = conversationMessages
               /\ after.recommendations = recommendations
               /\ after.error = error

C31_Witness ==
    /\ conversationStatus = "paused"
    /\ error = "model overloaded"
    /\ recommendations = <<"ask for a raise", "name a number">>
    /\ conversationMessages =
          <<[type |-> "agent", content |-> "ask for a raise"],
            [type |-> "agent", content |-> "ask for a raise"],
            [type |-> "agent", content |-> "name a number"]>>

\* type ConversationStatus = "idle" | "listening" | "speaking" | "paused"
ConversationStatuses == {"idle", "listening", "speaking", "paused"}

\* C33 (status range): the conversation status is always one of idle,
\* listening, speaking, paused, whatever messages the server sends (a status
\* message without a status field or with another string included).
C33_StatusInRange == conversationStatus \in ConversationStatuses

\* The session's current connection object exists and is open.
CurrentOpen == wsRef # Null /\ readyState[wsRef] = "OPEN"

\* Every event the browser has delivered has been handled and none is on its
\* way for the current connection: no close event is due after an error
\* event, and the current connection is not in its closing handshake.
EventsProcessed ==
    /\ inTask = Null
    /\ wsRef # Null => readyState[wsRef] # "CLOSING"

\* C34 (isConnected agrees with the current connection): once the delivered
\* events have been processed, isConnected is true exactly when the current
\* connection object is open; a late close event of a previous connection
\* does not set it false while the newer connection is open.
C34_IsConnectedAgrees == EventsProcessed => (isConnected <=> CurrentOpen)

\* C35 (counter ceiling): the reconnect-attempt counter never exceeds
\* maxReconnectAttempts, under any interleaving of connect(), disconnect(),
\* close events and timer firings.
C35_CounterAtMostMax == reconnectAttempts <= maxReconnectAttempts

\* C36 (no retry pending while open): while the current connection is open
\* no reconnect timer is pending, whether the connection was opened by a
\* timer-driven or by an explicit connect().
C36_NoTimerWhileOpen == CurrentOpen => PendingTimers(Here) = 0

\* No session is running or being started: handleStopSession has returned
\* (or no session was ever started) and handleStartSession has not been
\* called since.  disconnect() is the only statement that sets wsRef to
\* null, connect() sets it again.
Stopped == wsRef = Null /\ starting = "none" /\ ~isRecording

C38_FlagConsistent ==
    /\ initialMessageSent => CurrentOpen /\ handshakes[wsRef] >= 1
    /\ (\A c \in Conns : readyState[c] # "OPEN") => ~initialMessageSent

\* C39 (recovery after an abnormal close): when the connection a reconnect
\* timer made opens, the handshake is sent on that connection before any
\* audio frame, the status returns to listening, the attempt counter is 0
\* and sendAudioData reaches the transport on that connection again.
C39_Recovery ==
    [][\A c \in retried :
          (readyState[c] = "CONNECTING" /\ readyState'[c] = "OPEN")
             => /\ calls' = {Call("send_text", c, InitialMessage, 0)}
                /\ handshakes'[c] = 1
                /\ conversationStatus' = "listening"
                /\ reconnectAttempts' = 0
                /\ \A p \in Payloads :
                      (sendAudioData(Here, p).calls)'
                         = {Call("send_binary", c, p, 0)}]_vars

\* The pause_detected messages the handler that ran last sent to ws.
PausesSent(m, ws) ==
    {k \in m.sent : k.to = ws /\ k.message.type = "pause_detected"}

\* C32 (mock server pause cycle): a pause_detected message goes to a client
\* only when a status listening message has gone to the same client since
\* the pause_detected before it; after a pause_detected the status listening
\* message follows unless the client's socket stops being open; and nothing
\* is sent to a socket that is not open.
C32_PauseCycle ==
    /\ [][\A ws \in Clients :
             /\ PausesSent(mockServer, ws)' # {} => ~mockServer.awaiting[ws]
             /\ \A k \in mockServer.sent' :
                   k.to = ws => mockServer.readyState[ws]' = "OPEN"]_vars
    /\ \A ws \in Clients :
          mockServer.awaiting[ws]
             ~> (~mockServer.awaiting[ws] \/ mockServer.readyState[ws] # "OPEN")

\* A second pause_detected has just gone to a client.
C32_Witness ==
    \E ws \in Clients :
       /\ PausesSent(mockServer, ws) # {}
       /\ mockServer.pauses[ws] = 2
       /\ mockServer.readyState[ws] = "OPEN"

====
